---- MODULE Spec2Model ----
(***************************************************************************)
(* Model of pmi_cluster.py: DocumentLevelClusters.  The constructor is     *)
(* unfolded into one action per call it makes (create_index, create_vocab, *)
(* the batch initialisation, then find_best / merge / update_batch per     *)
(* round of the while loop), followed by save_clusters.                    *)
(*                                                                         *)
(* Cluster ids: a word (a Python str) is a negative integer, a merged      *)
(* cluster id (a Python int counted from 0) is a natural number, so the    *)
(* two kinds of dictionary key never compare equal, as in Python.          *)
(* A score log(p) - log(f1) - log(f2) is kept as the exact ratio           *)
(* <<p, f1 * f2>> and compared by cross-multiplication; float('-inf') is   *)
(* <<0, 1>>.                                                               *)
(***************************************************************************)
EXTENDS Integers, Sequences, FiniteSets, TLC

\* ---- bounds of the explored inputs ----
NumWords == 3
MaxDocs == 3
MaxDocLen == 2
MaxBatch == 2
MaxCap == 2

\* max_vocab_size=None (no cap); a supplied cap is a positive integer
None == 0

Tokens == {0 - i : i \in 1..NumWords}

SeqsUpTo(S, n) == UNION {[1..k -> S] : k \in 0..n}

Corpora == SeqsUpTo(SeqsUpTo(Tokens, MaxDocLen), MaxDocs)

\* ---- bounds of the inputs of WideSpec ----
WideWords == 4
WideBatch == 3

WideTokens == {0 - i : i \in 1..WideWords}

WideCorpora == SeqsUpTo(SeqsUpTo(WideTokens, MaxDocLen), MaxDocs)

VARIABLES
    docs,                  \* the document stream handed to __init__
    batch_size,
    max_vocab_size,
    num_docs,
    cluster_parents,
    cluster_counter,
    index,                 \* cluster id -> (doc id -> count)
    word_order,            \* key (insertion) order of word_counts after indexing
    words,
    word_counts,
    cluster_bits,
    current_batch,
    current_batch_scores,  \* ordered dict of ordered dicts: <<[k, d: <<[k, s]>>]>>
    word_queue,
    c1, c2,                \* the locals c1, c2 of the while loop
    pc,                    \* position in __init__ / main
    error,                 \* the exception that ended the run, or "none"
    output                 \* the records written by save_clusters

vars == <<docs, batch_size, max_vocab_size, num_docs, cluster_parents,
          cluster_counter, index, word_order, words, word_counts,
          cluster_bits, current_batch, current_batch_scores, word_queue,
          c1, c2, pc, error, output>>

EmptyMap == [x \in {} |-> 0]

\* dict helpers
Has(m, k) == k \in DOMAIN m
Put(m, k, v) == [x \in DOMAIN m \cup {k} |-> IF x = k THEN v ELSE m[x]]
Del(m, k) == [x \in DOMAIN m \ {k} |-> m[x]]
\* defaultdict read: a missing key reads as the default
GetOr(m, k, dflt) == IF k \in DOMAIN m THEN m[k] ELSE dflt

Range(s) == {s[i] : i \in 1..Len(s)}

\* before main calls DocumentLevelClusters(doc_generator, max_vocab_size=...,
\* batch_size=...): nothing is read yet and the object's fields are unset
Init ==
    /\ docs = <<>>
    /\ batch_size = 1
    /\ max_vocab_size = None
    /\ num_docs = 0
    /\ cluster_parents = EmptyMap
    /\ cluster_counter = 0
    /\ index = EmptyMap
    /\ word_order = <<>>
    /\ words = <<>>
    /\ word_counts = EmptyMap
    /\ cluster_bits = EmptyMap
    /\ current_batch = <<>>
    /\ current_batch_scores = <<>>
    /\ word_queue = <<>>
    /\ c1 = None
    /\ c2 = None
    /\ pc = "start"
    /\ error = "none"
    /\ output = <<>>

\* ---- create_index ----

\* lines 160-163: one token w of document doc_id
AddToken(st, w, doc_id) ==
    LET row == GetOr(st.index, w, EmptyMap)
        row0 == IF Has(row, doc_id) THEN row ELSE Put(row, doc_id, 0)
    IN  [index |-> Put(st.index, w, Put(row0, doc_id, row0[doc_id] + 1)),
         word_counts |-> Put(st.word_counts, w, GetOr(st.word_counts, w, 0) + 1),
         order |-> IF Has(st.word_counts, w) THEN st.order
                   ELSE Append(st.order, w)]

RECURSIVE IndexTokens(_, _, _, _)
IndexTokens(st, doc, doc_id, i) ==
    IF i > Len(doc) THEN st
    ELSE IndexTokens(AddToken(st, doc[i], doc_id), doc, doc_id, i + 1)

\* line 158: enumerate numbers the documents from 0
RECURSIVE IndexDocs(_, _, _)
IndexDocs(st, ds, d) ==
    IF d > Len(ds) THEN st
    ELSE IndexDocs(IndexTokens(st, ds[d], d - 1, 1), ds, d + 1)

\* __init__ lines 102-124: the arguments are stored and create_index
\* (lines 158-167) consumes the document stream ds
CreateIndexFrom(corpora, batch_sizes, caps) ==
    /\ pc = "start"
    /\ \E ds \in corpora, bs \in batch_sizes, cap \in caps :
          /\ docs' = ds
          /\ batch_size' = bs
          /\ max_vocab_size' = cap
          /\ LET st == IndexDocs([index |-> index,
                                  word_counts |-> word_counts,
                                  order |-> <<>>], ds, 1)
             IN  /\ index' = st.index
                 /\ word_counts' = st.word_counts
                 /\ word_order' = st.order
          /\ IF Len(ds) = 0
             THEN \* line 166: doc_id was never bound by the for loop
                  /\ pc' = "raised"
                  /\ error' = "UnboundLocalError"
                  /\ UNCHANGED num_docs
             ELSE /\ num_docs' = (Len(ds) - 1) + 1
                  /\ pc' = "indexed"
                  /\ UNCHANGED error
    /\ UNCHANGED <<cluster_parents, cluster_counter, words, cluster_bits,
                   current_batch, current_batch_scores, word_queue, c1, c2,
                   output>>

CreateIndex == CreateIndexFrom(Corpora, 1..MaxBatch, {None} \cup (1..MaxCap))

\* the same call on a larger vocabulary with a larger batch and no cap, so
\* that a batch of four ids and score entries that outlive a round occur
CreateIndexWide == CreateIndexFrom(WideCorpora, 1..WideBatch, {None})

\* ---- create_vocab ----

\* sorted(keys, key=count, reverse=True): stable, so an element goes after
\* every element already placed whose count is at least its own
InsertDesc(sorted, w, wc) ==
    LET p == Cardinality({i \in 1..Len(sorted) : wc[sorted[i]] >= wc[w]})
    IN  SubSeq(sorted, 1, p) \o <<w>> \o SubSeq(sorted, p + 1, Len(sorted))

RECURSIVE SortedDesc(_, _, _)
SortedDesc(keys, wc, i) ==
    IF i = 0 THEN <<>>
    ELSE InsertDesc(SortedDesc(keys, wc, i - 1), keys[i], wc)

\* line 173-174
CapApplies(ws, cap) == cap # None /\ Len(ws) > cap

\* line 175: self.words[self.max_vocab_size + 1] is out of range
CapIndexError(ws, cap) == cap + 1 >= Len(ws)

\* lines 175-177 (Python index cap + 1 is position cap + 2)
TooRare(ws, wc, cap) ==
    LET too_rare == wc[ws[cap + 2]]
    IN  IF too_rare = wc[ws[1]] THEN too_rare + 1 ELSE too_rare

\* lines 181-182
KeepFrequent(ws, wc, too_rare) ==
    LET Keep(w) == wc[w] > too_rare
    IN  SelectSeq(ws, Keep)

\* lines 183-188
Prune(m, words_set) == [k \in DOMAIN m \cap words_set |-> m[k]]

CreateVocab ==
    /\ pc = "indexed"
    /\ LET sorted == SortedDesc(word_order, word_counts, Len(word_order))
       IN  IF ~CapApplies(sorted, max_vocab_size)
           THEN /\ words' = sorted
                /\ pc' = "vocab"
                /\ UNCHANGED <<index, word_counts, error>>
           ELSE IF CapIndexError(sorted, max_vocab_size)
           THEN /\ words' = sorted
                /\ pc' = "raised"
                /\ error' = "IndexError"
                /\ UNCHANGED <<index, word_counts>>
           ELSE LET kept == KeepFrequent(sorted, word_counts,
                               TooRare(sorted, word_counts, max_vocab_size))
                IN  /\ words' = kept
                    /\ index' = Prune(index, Range(kept))
                    /\ word_counts' = Prune(word_counts, Range(kept))
                    /\ pc' = "vocab"
                    /\ UNCHANGED error
    /\ UNCHANGED <<docs, batch_size, max_vocab_size, num_docs, cluster_parents,
                   cluster_counter, word_order, cluster_bits, current_batch,
                   current_batch_scores, word_queue, c1, c2, output>>

\* ---- make_pair_scores ----

NegInf == <<0, 1>>

\* line 215 (mutant: score < best_score)
ScoreGtFlipped(s, t) == s[1] * t[2] < t[1] * s[2]

\* line 215: score > best_score
ScoreGt(s, t) == s[1] * t[2] > t[1] * s[2]
ScoreEq(s, t) == s[1] * t[2] = t[1] * s[2]

RECURSIVE SumOver(_, _, _)
SumOver(S, a, b) ==
    IF S = {} THEN 0
    ELSE LET d == CHOOSE x \in S : TRUE
         IN  a[d] * b[d] + SumOver(S \ {d}, a, b)

\* lines 192-196: self.index is a defaultdict(dict), a missing id reads as {}
PairCount(idx, x, y) ==
    LET a == GetOr(idx, x, EmptyMap)
        b == GetOr(idx, y, EmptyMap)
    IN  SumOver(DOMAIN a \cap DOMAIN b, a, b)

\* lines 198-206
PairScore(idx, wc, x, y) ==
    LET paircount == PairCount(idx, x, y)
    IN  IF paircount = 0 THEN NegInf
        ELSE <<paircount, GetOr(wc, x, 0) * GetOr(wc, y, 0)>>

\* line 204-206: log(0) of a frequency raises ValueError
PairRaises(idx, wc, x, y) ==
    /\ PairCount(idx, x, y) # 0
    /\ GetOr(wc, x, 0) * GetOr(wc, y, 0) = 0

\* self.current_batch_scores[x][y] = s on the nested (insertion ordered) dicts
PutInner(d, y, s) ==
    IF \E j \in 1..Len(d) : d[j].k = y
    THEN [j \in 1..Len(d) |-> IF d[j].k = y THEN [k |-> y, s |-> s] ELSE d[j]]
    ELSE Append(d, [k |-> y, s |-> s])

SetScore(scores, x, y, s) ==
    IF \E i \in 1..Len(scores) : scores[i].k = x
    THEN [i \in 1..Len(scores) |->
             IF scores[i].k = x
             THEN [k |-> x, d |-> PutInner(scores[i].d, y, s)]
             ELSE scores[i]]
    ELSE Append(scores, [k |-> x, d |-> <<[k |-> y, s |-> s]>>])

\* the lookups self.index[c1], self.index[c2] insert {} for a missing id
Touch(idx, x) == IF Has(idx, x) THEN idx ELSE Put(idx, x, EmptyMap)

\* st = [scores, index, raised]; word_counts is only read for ids with a
\* non-zero pair count, whose frequency entries exist
RECURSIVE make_pair_scores(_, _, _, _)
make_pair_scores(st, wc, pairs, i) ==
    IF i > Len(pairs) \/ st.raised THEN st
    ELSE LET x == pairs[i][1]
             y == pairs[i][2]
             idx == Touch(Touch(st.index, x), y)
         IN  make_pair_scores(
                 [scores |-> IF PairRaises(idx, wc, x, y) THEN st.scores
                             ELSE SetScore(st.scores, x, y,
                                           PairScore(idx, wc, x, y)),
                  index |-> idx,
                  raised |-> PairRaises(idx, wc, x, y)],
                 wc, pairs, i + 1)

\* itertools.combinations(s, 2), in its order
RECURSIVE Combinations2(_)
Combinations2(s) ==
    IF Len(s) < 2 THEN <<>>
    ELSE [j \in 1..(Len(s) - 1) |-> <<s[1], s[j + 1]>>] \o Combinations2(Tail(s))

\* itertools.product(a, b), in its order
RECURSIVE Product(_, _)
Product(a, b) ==
    IF Len(a) = 0 THEN <<>>
    ELSE [j \in 1..Len(b) |-> <<a[1], b[j]>>] \o Product(Tail(a), b)

Min(a, b) == IF a < b THEN a ELSE b

\* ---- __init__, lines 132-139 ----
InitBatch ==
    /\ pc = "vocab"
    /\ LET batch == SubSeq(words, 1, Min(Len(words), batch_size + 1))
           st == make_pair_scores([scores |-> <<>>, index |-> index,
                                   raised |-> FALSE],
                                  word_counts, Combinations2(batch), 1)
       IN  /\ current_batch' = batch
           /\ current_batch_scores' = st.scores
           /\ index' = st.index
           /\ IF st.raised
              THEN /\ pc' = "raised"
                   /\ error' = "ValueError"
                   /\ UNCHANGED word_queue
              ELSE /\ word_queue' = SubSeq(words, batch_size + 2, Len(words))
                   /\ pc' = "loop"
                   /\ UNCHANGED error
    /\ UNCHANGED <<docs, batch_size, max_vocab_size, num_docs, cluster_parents,
                   cluster_counter, word_order, words, word_counts,
                   cluster_bits, c1, c2, output>>

\* ---- find_best ----

\* the (tmp1, tmp2, score) triples in the order the nested loops visit them
RECURSIVE Flatten(_)
Flatten(scores) ==
    IF Len(scores) = 0 THEN <<>>
    ELSE [j \in 1..Len(scores[1].d) |->
             [c1 |-> scores[1].k, c2 |-> scores[1].d[j].k,
              s |-> scores[1].d[j].s]]
         \o Flatten(Tail(scores))

\* lines 215-218 for one entry e; st.used counts the random.randint calls made
\* so far, the next one returns draws[st.used + 1]
Consider(st, e, draws) ==
    IF ~st.found \/ ScoreGt(e.s, st.best_score)
    THEN [found |-> TRUE, c1 |-> e.c1, c2 |-> e.c2, best_score |-> e.s,
          used |-> st.used]
    ELSE IF ScoreEq(e.s, st.best_score)
    THEN IF draws[st.used + 1] = 1
         THEN [found |-> TRUE, c1 |-> e.c1, c2 |-> e.c2, best_score |-> e.s,
               used |-> st.used + 1]
         ELSE [st EXCEPT !.used = @ + 1]
    ELSE st

RECURSIVE FindBestFrom(_, _, _, _)
FindBestFrom(entries, i, st, draws) ==
    IF i > Len(entries) THEN st
    ELSE FindBestFrom(entries, i + 1, Consider(st, entries[i], draws), draws)

\* found = FALSE stands for the result (None, None)
find_best(scores, draws) ==
    FindBestFrom(Flatten(scores), 1,
                 [found |-> FALSE, c1 |-> None, c2 |-> None,
                  best_score |-> NegInf, used |-> 0], draws)

\* line 140: while len(self.current_batch) > 1 (mutant: one element too early)
LoopTestOffByOne(batch) == Len(batch) > 2

\* line 140: while len(self.current_batch) > 1
LoopTest(batch) == Len(batch) > 1

\* line 140 (loop test true) and line 142
FindBest ==
    /\ pc = "loop"
    /\ LoopTest(current_batch)
    /\ \E draws \in [1..Len(Flatten(current_batch_scores)) -> {0, 1}] :
          LET r == find_best(current_batch_scores, draws)
          IN  IF r.found
              THEN /\ c1' = r.c1
                   /\ c2' = r.c2
                   /\ pc' = "found"
                   /\ UNCHANGED error
              ELSE \* merge(None, None) ends in del self.index[None] twice
                   /\ pc' = "raised"
                   /\ error' = "KeyError"
                   /\ UNCHANGED <<c1, c2>>
    /\ UNCHANGED <<docs, batch_size, max_vocab_size, num_docs, cluster_parents,
                   cluster_counter, index, word_order, words, word_counts,
                   cluster_bits, current_batch, current_batch_scores,
                   word_queue, output>>

\* line 140 (loop test false): the constructor returns
LoopExit ==
    /\ pc = "loop"
    /\ ~LoopTest(current_batch)
    /\ pc' = "done"
    /\ UNCHANGED <<docs, batch_size, max_vocab_size, num_docs, cluster_parents,
                   cluster_counter, index, word_order, words, word_counts,
                   cluster_bits, current_batch, current_batch_scores,
                   word_queue, c1, c2, error, output>>

\* ---- merge ----

\* str(r) of a bit
Str(r) == IF r = 0 THEN "0" ELSE "1"

\* lines 224-225 (mutant: line 225 left out)
MergeParentsFirstOnly(parents, a, b, c_new) == Put(parents, a, c_new)

\* lines 224-225
MergeParents(parents, a, b, c_new) == Put(Put(parents, a, c_new), b, c_new)

\* lines 227-228 (mutant: line 228 left out)
MergeBitsFirstOnly(bits, a, b, r) == Put(bits, a, Str(r))

\* lines 227-228 (mutant: both children get the bit r)
MergeBitsSame(bits, a, b, r) == Put(Put(bits, a, Str(r)), b, Str(r))

\* lines 227-228
MergeBits(bits, a, b, r) == Put(Put(bits, a, Str(r)), b, Str(1 - r))

\* lines 234-237 (mutant: line 237 assigns instead of adding)
RECURSIVE AddCountsOverwrite(_, _, _)
AddCountsOverwrite(acc, src, todo) ==
    IF todo = {} THEN acc
    ELSE LET doc_id == CHOOSE x \in todo : TRUE
         IN  AddCountsOverwrite(Put(acc, doc_id, src[doc_id]),
                                src, todo \ {doc_id})

\* lines 234-237: add the counts of map src into map acc
RECURSIVE AddCounts(_, _, _)
AddCounts(acc, src, todo) ==
    IF todo = {} THEN acc
    ELSE LET doc_id == CHOOSE x \in todo : TRUE
             acc0 == IF Has(acc, doc_id) THEN acc ELSE Put(acc, doc_id, 0)
         IN  AddCounts(Put(acc0, doc_id, acc0[doc_id] + src[doc_id]),
                       src, todo \ {doc_id})

\* lines 233-245 (mutant: line 245, del self.index[c2], left out)
MergeIndexKeepSecond(idx, a, b, c_new) ==
    LET idx0 == Touch(Touch(idx, a), b)
        combined == AddCounts(idx0[a], idx0[b], DOMAIN idx0[b])
    IN  Del(Put(Put(idx0, c_new, combined), a, combined), a)

\* lines 233-245 for a # b.  Line 233 makes index[c_new] the same dict object
\* as index[a], so the loop of lines 234-237 changes both entries; the entries
\* of a and b are then deleted.
MergeIndex(idx, a, b, c_new) ==
    LET idx0 == Touch(Touch(idx, a), b)
        combined == AddCounts(idx0[a], idx0[b], DOMAIN idx0[b])
        aliased == Put(Put(idx0, c_new, combined), a, combined)
    IN  Del(Del(aliased, a), b)

\* lines 240, 246-249 (mutant: the count of c2 is not added)
MergeWordCountsFirstOnly(wc, ws, a, b, c_new) ==
    LET wc0 == Put(wc, c_new, GetOr(wc, a, 0))
        wc1 == IF a \notin Range(ws) THEN Del(wc0, a) ELSE wc0
    IN  IF b \notin Range(ws) THEN Del(wc1, b) ELSE wc1

\* lines 240, 246-249 (mutant: the tests "not in self.words" left out)
MergeWordCountsDropAll(wc, ws, a, b, c_new) ==
    Del(Del(Put(wc, c_new, GetOr(wc, a, 0) + GetOr(wc, b, 0)), a), b)

\* lines 240, 246-249
MergeWordCounts(wc, ws, a, b, c_new) ==
    LET wc0 == Put(wc, c_new, GetOr(wc, a, 0) + GetOr(wc, b, 0))
        wc1 == IF a \notin Range(ws) THEN Del(wc0, a) ELSE wc0
    IN  IF b \notin Range(ws) THEN Del(wc1, b) ELSE wc1

Merge ==
    /\ pc = "found"
    /\ IF c1 = c2
       THEN \* line 245: the second del of the same key
            /\ pc' = "raised"
            /\ error' = "KeyError"
            /\ UNCHANGED <<cluster_parents, cluster_bits, index, word_counts>>
       ELSE \E r \in {0, 1} :
            /\ cluster_parents' =
                   MergeParents(cluster_parents, c1, c2, cluster_counter)
            /\ cluster_bits' = MergeBits(cluster_bits, c1, c2, r)
            /\ index' = MergeIndex(index, c1, c2, cluster_counter)
            /\ word_counts' =
                   MergeWordCounts(word_counts, words, c1, c2, cluster_counter)
            /\ pc' = "merged"
            /\ UNCHANGED error
    /\ UNCHANGED <<docs, batch_size, max_vocab_size, num_docs, cluster_counter,
                   word_order, words, current_batch, current_batch_scores,
                   word_queue, c1, c2, output>>

\* ---- update_batch ----

\* lines 253-254 (mutant: only c1 is removed)
RemoveMergedFirstOnly(batch, a, b) ==
    LET Keep(x) == ~(x = a)
    IN  SelectSeq(batch, Keep)

\* lines 253-254
RemoveMerged(batch, a, b) ==
    LET Keep(x) == ~(x = a \/ x = b)
    IN  SelectSeq(batch, Keep)

\* lines 257-261 (mutant: lines 257-258 left out)
PurgeInnerOnly(scores, c) ==
    LET NotC(e) == e.k # c
    IN  [i \in 1..Len(scores) |->
            [k |-> scores[i].k, d |-> SelectSeq(scores[i].d, NotC)]]

\* lines 257-261 (mutant: lines 259-261 left out)
PurgeOuterOnly(scores, c) ==
    LET NotC(e) == e.k # c
    IN  SelectSeq(scores, NotC)

\* lines 257-261 for one id c
Purge(scores, c) ==
    LET NotC(e) == e.k # c
        outer == SelectSeq(scores, NotC)
    IN  [i \in 1..Len(outer) |->
            [k |-> outer[i].k, d |-> SelectSeq(outer[i].d, NotC)]]

\* lines 264-267 (mutant: the popped word is not appended to new_items)
NewItemsNoBacklog(counter, freq_words) == <<counter>>

\* lines 264-267
NewItems(counter, freq_words) ==
    IF Len(freq_words) > 0 THEN <<counter, Head(freq_words)>> ELSE <<counter>>

\* update_batch (lines 253-275) and the counter increment of line 155
UpdateBatch ==
    /\ pc = "merged"
    /\ LET batch == RemoveMerged(current_batch, c1, c2)
           purged == Purge(Purge(current_batch_scores, c1), c2)
           new_items == NewItems(cluster_counter, word_queue)
           st1 == make_pair_scores([scores |-> purged, index |-> index,
                                    raised |-> FALSE],
                                   word_counts, Product(new_items, batch), 1)
           st2 == make_pair_scores(st1, word_counts,
                                   Combinations2(new_items), 1)
       IN  /\ word_queue' = IF Len(word_queue) > 0 THEN Tail(word_queue)
                            ELSE word_queue
           /\ current_batch_scores' = st2.scores
           /\ index' = st2.index
           /\ IF st2.raised
              THEN /\ pc' = "raised"
                   /\ error' = "ValueError"
                   /\ current_batch' = batch
                   /\ UNCHANGED cluster_counter
              ELSE /\ current_batch' = batch \o new_items
                   /\ cluster_counter' = cluster_counter + 1
                   /\ pc' = "loop"
                   /\ UNCHANGED error
    /\ UNCHANGED <<docs, batch_size, max_vocab_size, num_docs, cluster_parents,
                   word_order, words, word_counts, cluster_bits, c1, c2,
                   output>>

\* ---- get_bitstring, save_clusters ----

\* lines 281-283 (mutant: "if" instead of "while", a single step up)
WalkUpOneStep(parents, bits, cur_cluster, bitstring) ==
    IF Has(parents, cur_cluster)
    THEN <<bits[cur_cluster]>> \o bitstring
    ELSE bitstring

\* lines 281-283 (mutant: the bit is appended instead of prepended)
RECURSIVE WalkUpAppend(_, _, _, _)
WalkUpAppend(parents, bits, cur_cluster, bitstring) ==
    IF Has(parents, cur_cluster)
    THEN WalkUpAppend(parents, bits, parents[cur_cluster],
                      bitstring \o <<bits[cur_cluster]>>)
    ELSE bitstring

\* lines 281-283: the while loop, from cur_cluster with the bits so far
RECURSIVE WalkUp(_, _, _, _)
WalkUp(parents, bits, cur_cluster, bitstring) ==
    IF Has(parents, cur_cluster)
    THEN WalkUp(parents, bits, parents[cur_cluster],
                <<bits[cur_cluster]>> \o bitstring)
    ELSE bitstring

\* a bitstring is the sequence of its characters, "" is <<>>
get_bitstring(parents, bits, w) == WalkUp(parents, bits, w, <<>>)

\* lines 288-290, one record per word
SaveClusters ==
    /\ pc = "done"
    /\ output' = [i \in 1..Len(words) |->
                     [word |-> words[i],
                      code |-> get_bitstring(cluster_parents, cluster_bits,
                                             words[i]),
                      freq |-> GetOr(word_counts, words[i], 0)]]
    /\ pc' = "saved"
    /\ UNCHANGED <<docs, batch_size, max_vocab_size, num_docs, cluster_parents,
                   cluster_counter, index, word_order, words, word_counts,
                   cluster_bits, current_batch, current_batch_scores,
                   word_queue, c1, c2, error>>

Next ==
    \/ CreateIndex
    \/ CreateVocab
    \/ InitBatch
    \/ FindBest
    \/ Merge
    \/ UpdateBatch
    \/ LoopExit
    \/ SaveClusters

Spec == Init /\ [][Next]_vars

\* one round of the while loop of lines 140-155, or its exit
LoopStep == FindBest \/ Merge \/ UpdateBatch \/ LoopExit

\* the loop runs in a single sequential thread: a step of it that can be
\* taken is taken
FairSpec == Spec /\ WF_vars(LoopStep)
NextWide ==
    \/ CreateIndexWide
    \/ CreateVocab
    \/ InitBatch
    \/ FindBest
    \/ Merge
    \/ UpdateBatch
    \/ LoopExit
    \/ SaveClusters

WideSpec == Init /\ [][NextWide]_vars

\* ======================= properties =======================

\* number of occurrences of token w in the corpus
Occurrences(w) ==
    Cardinality({p \in (1..Len(docs)) \X (1..MaxDocLen) :
                    p[2] <= Len(docs[p[1]]) /\ docs[p[1]][p[2]] = w})

Constructed == pc \in {"vocab", "loop", "found", "merged", "done", "saved"}

\* C1: the frequency written by save_clusters for each retained word is the
\* number of occurrences of the word in the corpus; from vocabulary selection
\* on, no merge changes or deletes word_counts[w] of a retained word w.
C1_OutputFrequencies ==
    /\ Constructed =>
          \A w \in Range(words) :
              Has(word_counts, w) /\ word_counts[w] = Occurrences(w)
    /\ pc = "saved" =>
          /\ Len(output) = Len(words)
          /\ \A i \in 1..Len(output) :
                /\ output[i].word = words[i]
                /\ output[i].freq = Occurrences(words[i])

C1_Witness ==
    /\ pc = "saved"
    /\ cluster_counter >= 2
    /\ \E i \in 1..Len(output) : output[i].freq >= 2

\* C2: with a cap supplied, create_vocab retains at most max_vocab_size words.
C2_AtMostCap ==
    (pc = "vocab" /\ max_vocab_size # None) => Len(words) <= max_vocab_size

\* the distinct words of the corpus and the frequency of the word on which
\* the cut after the cap most frequent words falls
DistinctWords == {w \in Tokens : Occurrences(w) > 0}
AtLeast(f) == {w \in DistinctWords : Occurrences(w) >= f}
BoundaryFreq(cap) ==
    CHOOSE f \in 1..(MaxDocs * MaxDocLen) :
        /\ Cardinality(AtLeast(f)) >= cap
        /\ Cardinality(AtLeast(f + 1)) < cap
CutSplitsTie(cap) ==
    /\ Cardinality(DistinctWords) > cap
    /\ Cardinality(AtLeast(BoundaryFreq(cap))) > cap

\* C3: when the cut after the cap most frequent words falls inside a group of
\* equal-frequency words, every word of that group and every more frequent
\* word is retained.
C3_TieGroupRetained ==
    (pc = "vocab" /\ max_vocab_size # None /\ CutSplitsTie(max_vocab_size)) =>
        AtLeast(BoundaryFreq(max_vocab_size)) \subseteq Range(words)

\* C4: vocabulary selection completes for every frequency table and every
\* positive cap: a too-small cap is never a fatal error.
C4_VocabNeverFatal ==
    (max_vocab_size # None /\ Len(docs) > 0 /\ pc \notin {"start", "indexed"})
        => ~(pc = "raised" /\ error = "IndexError")

\* C5: for an empty document stream the constructor completes without
\* raising, no merge is made and save_clusters writes zero records.
C5_EmptyCorpusCompletes ==
    (Len(docs) = 0 /\ pc # "start") =>
        /\ pc # "raised"
        /\ cluster_counter = 0
        /\ output = <<>>

\* every cluster id made so far: the retained words and the merged ids
MergedIds ==
    0..(IF pc = "merged" THEN cluster_counter ELSE cluster_counter - 1)
ClusterIds == Range(words) \cup MergedIds
Roots == {c \in ClusterIds : ~Has(cluster_parents, c)}
Max(a, b) == IF a > b THEN a ELSE b

C6_AtDone ==
    pc = "done" =>
        /\ cluster_counter = Max(Len(words) - 1, 0)
        /\ word_queue = <<>>
        /\ Len(current_batch) <= 1
        /\ Cardinality(Roots) <= 1

\* C6: for every retained vocabulary of n words the merge loop terminates
\* after exactly max(n - 1, 0) merges; at DONE the backlog is empty, the
\* batch holds at most one id and at most one cluster id has no parent.
C6_Terminates == ((pc = "loop") ~> (pc = "done")) /\ []C6_AtDone

C6_Witness ==
    /\ pc = "done"
    /\ Len(words) = 3
    /\ batch_size = 1
    /\ cluster_counter = 2

\* the ancestor of c after k parent steps (c itself for k = 0)
RECURSIVE Ancestor(_, _)
Ancestor(c, k) == IF k = 0 THEN c ELSE cluster_parents[Ancestor(c, k - 1)]

RECURSIVE HasAncestor(_, _)
HasAncestor(c, k) ==
    IF k = 0 THEN TRUE
    ELSE HasAncestor(c, k - 1) /\ Has(cluster_parents, Ancestor(c, k - 1))

\* the number of merges on the path from c to its root
Depth(c) ==
    CHOOSE k \in 0..(cluster_counter + 1) :
        HasAncestor(c, k) /\ ~Has(cluster_parents, Ancestor(c, k))

RootFirst(c, code) ==
    /\ Len(code) = Depth(c)
    /\ \A i \in 1..Len(code) :
          code[i] = cluster_bits[Ancestor(c, Len(code) - i)]
    /\ (code = <<>>) <=> ~Has(cluster_parents, c)

\* C7: get_bitstring(w) is the bits of w and of its ancestors, root first and
\* w's own bit last; its length is the number of merges on the path from w to
\* its root and it is empty exactly when w has no parent; the codes written
\* by save_clusters are these, read from maps the query has left unchanged.
C7_Bitstring ==
    /\ Constructed =>
          \A w \in Range(words) :
              RootFirst(w, get_bitstring(cluster_parents, cluster_bits, w))
    /\ pc = "saved" =>
          \A i \in 1..Len(output) : RootFirst(output[i].word, output[i].code)

C7_Witness ==
    /\ pc = "saved"
    /\ \E i \in 1..Len(output) :
          /\ Len(output[i].code) = 2
          /\ output[i].code[1] # output[i].code[2]

Children(p) == {k \in DOMAIN cluster_parents : cluster_parents[k] = p}

C8_State ==
    /\ \A k \in DOMAIN cluster_parents :
          /\ cluster_parents[k] \in MergedIds
          /\ k >= 0 => cluster_parents[k] > k
    /\ \A p \in MergedIds : Cardinality(Children(p)) = 2

C8_NeverOverwritten ==
    \A k \in DOMAIN cluster_parents :
        /\ Has(cluster_parents', k)
        /\ cluster_parents'[k] = cluster_parents[k]

\* C8: the parent map is acyclic: an entry of cluster_parents is never
\* overwritten by a later merge, each merged id is the parent of exactly two
\* children, and the parent of a merged id k is greater than k.
C8_Acyclic == []C8_State /\ [][C8_NeverOverwritten]_vars

C8_Witness ==
    /\ pc = "merged"
    /\ cluster_counter = 1
    /\ Has(cluster_parents, 0)
    /\ Cardinality(DOMAIN cluster_parents) = 4

ThreeWordsNoCap ==
    /\ pc = "saved"
    /\ Len(words) = 3
    /\ max_vocab_size = None
    /\ batch_size >= 2

CodeLengths(n) == {i \in 1..Len(output) : Len(output[i].code) = n}

\* C10 as written: 2 merges, 3 records, one word has the empty code as root
\* and the other words have codes of length 1 or 2.
C10_OneWordIsRoot ==
    ThreeWordsNoCap =>
        /\ cluster_counter = 2
        /\ Len(output) = 3
        /\ Cardinality(CodeLengths(0)) = 1
        /\ Cardinality(CodeLengths(1) \cup CodeLengths(2)) = 2

\* C10 (amended): for a vocabulary of exactly 3 words with no cap and
\* batch_size >= 2, exactly 2 merges occur and the output has 3 records
\* forming a 3-leaf binary tree whose root is the last merged id: no word has
\* the empty code, one word has a code of length 1 and the other two have
\* codes of length 2 that start with the complement of that bit and differ
\* in their second bit.
C10_ThreeLeafTree ==
    ThreeWordsNoCap =>
        /\ cluster_counter = 2
        /\ Len(output) = 3
        /\ CodeLengths(0) = {}
        /\ \E i, j, k \in 1..3 :
              /\ {i, j, k} = 1..3
              /\ CodeLengths(1) = {i}
              /\ CodeLengths(2) = {j, k}
              /\ output[j].code[1] = output[k].code[1]
              /\ output[j].code[1] # output[i].code[1]
              /\ output[j].code[2] # output[k].code[2]

C10_Witness ==
    /\ ThreeWordsNoCap
    /\ Len(output) = 3
    /\ cluster_counter = 2
    /\ \A w \in Tokens : Occurrences(w) = 2
\* the entries of the score table, as (outer key, inner key, score)
EntryPositions ==
    UNION {{<<i, j>> : j \in 1..Len(current_batch_scores[i].d)} :
              i \in 1..Len(current_batch_scores)}
Entry(p) ==
    [c1 |-> current_batch_scores[p[1]].k,
     c2 |-> current_batch_scores[p[1]].d[p[2]].k,
     s |-> current_batch_scores[p[1]].d[p[2]].s]
StoredEntries == {Entry(p) : p \in EntryPositions}

\* C11: whenever the batch holds more than one id, find_best returns two
\* distinct ids of the current batch whose stored score is the maximum over
\* all entries of the score table (negative infinity included), whatever the
\* tie-breaking draws; it never returns (None, None).
C11_FindBest ==
    /\ ~(pc = "raised" /\ error = "KeyError")
    /\ pc = "found" =>
          /\ c1 # c2
          /\ {c1, c2} \subseteq Range(current_batch)
          /\ \E e \in StoredEntries :
                /\ e.c1 = c1
                /\ e.c2 = c2
                /\ \A f \in StoredEntries : f.s[1] * e.s[2] <= e.s[1] * f.s[2]

C11_Witness ==
    /\ pc = "found"
    /\ Len(current_batch) = 4
    /\ \E e, f, g \in StoredEntries :
          /\ e.s[1] = 0
          /\ f.s[1] > 0
          /\ g # f
          /\ g.s[1] * f.s[2] = f.s[1] * g.s[2]
          /\ f.c1 = c1 /\ f.c2 = c2

BatchPairs ==
    {{x, y} : x, y \in Range(current_batch)} \ {{x} : x \in Range(current_batch)}

\* C12: at the start of every merge round the score table holds exactly one
\* entry for each unordered pair of distinct ids of the batch and no entry
\* that references an id outside the batch; no pair is scored in both orders.
C12_ScoreTable ==
    pc = "loop" =>
        /\ {{e.c1, e.c2} : e \in StoredEntries} = BatchPairs
        /\ Cardinality(EntryPositions) = Cardinality(BatchPairs)

C12_Witness ==
    /\ pc = "loop"
    /\ cluster_counter = 1
    /\ Len(current_batch) = 3
    /\ word_queue = <<>>
    /\ Len(words) = 4
    /\ batch_size = 2

\* the co-occurrence count of x and y, from the current document maps
RECURSIVE CoOccurrence(_, _, _)
CoOccurrence(x, y, n) ==
    IF n = 0 THEN 0
    ELSE CoOccurrence(x, y, n - 1)
         + (IF Has(index, x) /\ Has(index, y)
               /\ Has(index[x], n - 1) /\ Has(index[y], n - 1)
            THEN index[x][n - 1] * index[y][n - 1] ELSE 0)

Fresh(e) ==
    LET co == CoOccurrence(e.c1, e.c2, num_docs)
    IN  IF co = 0 THEN e.s = NegInf
        ELSE /\ Has(word_counts, e.c1)
             /\ Has(word_counts, e.c2)
             /\ e.s[1] > 0
             /\ e.s[1] * (word_counts[e.c1] * word_counts[e.c2]) = co * e.s[2]

\* C13: at the start of every merge round every entry (x, y) of the score
\* table equals the score recomputed from the current document maps and
\* frequencies of x and y (negative infinity when the co-occurrence is 0).
C13_NeverStale == pc = "loop" => \A e \in StoredEntries : Fresh(e)

\* an entry scored before the last merge is still in the table
C13_Witness ==
    /\ pc = "loop"
    /\ cluster_counter = 1
    /\ \E e \in StoredEntries :
          /\ e.c1 < 0 /\ e.c2 < 0
          /\ e.s[1] > 0
          /\ {e.c1, e.c2} \subseteq Range(SubSeq(words, 1, batch_size + 1))
\* C14: the batch holds at most batch_size + 1 ids, without duplicates, and
\* is disjoint from the backlog; at the start of every merge round with a
\* non-empty backlog it holds exactly batch_size + 1 ids.
C14_Batch ==
    /\ Len(current_batch) <= batch_size + 1
    /\ Cardinality(Range(current_batch)) = Len(current_batch)
    /\ Range(current_batch) \cap Range(word_queue) = {}
    /\ (pc = "loop" /\ word_queue # <<>>) =>
          Len(current_batch) = batch_size + 1

C14_Witness ==
    /\ pc = "loop"
    /\ cluster_counter >= 1
    /\ word_queue # <<>>
    /\ Len(current_batch) = batch_size + 1

C15_Round ==
    /\ (pc = "merged" /\ pc' = "loop") =>
          /\ Len(current_batch') + Len(word_queue')
                = Len(current_batch) + Len(word_queue) - 1
          /\ c1 # c2
          /\ Range(current_batch) \ Range(current_batch') = {c1, c2}
          /\ Range(current_batch') \ Range(current_batch)
                = {cluster_counter}
                  \cup (IF word_queue # <<>> THEN {Head(word_queue)} ELSE {})
          /\ word_queue' = IF word_queue # <<>> THEN Tail(word_queue)
                           ELSE <<>>
    /\ pc \in {"loop", "found"} => UNCHANGED <<current_batch, word_queue>>

\* C15: every merge round (find_best, merge, update_batch) decreases the
\* size of batch plus backlog by exactly 1: two distinct ids leave the batch,
\* the new merged id enters it, and a word moves from the backlog to the
\* batch exactly when the backlog was non-empty.
C15_MergeRound == [][C15_Round]_vars

C15_Witness ==
    /\ pc = "loop"
    /\ cluster_counter = 2
    /\ Len(words) = 4
    /\ batch_size = 2
    /\ word_queue = <<>>
    /\ Len(current_batch) = 2

ScoreIds == UNION {{e.c1, e.c2} : e \in StoredEntries}

\* C16: at the start of every merge round the ids with a document map are
\* exactly the live ids (batch and backlog); merge removes the maps of both
\* children and creates the one of the new id; no batch member or score
\* entry looked up by a round lacks a map, no lookup creates an empty map
\* and no lookup of a missing cluster ends the run.
C16_LiveMaps ==
    /\ error \notin {"KeyError", "ValueError"}
    /\ Constructed => \A k \in DOMAIN index : DOMAIN index[k] # {}
    /\ pc \in {"loop", "found"} =>
          /\ DOMAIN index = Range(current_batch) \cup Range(word_queue)
          /\ ScoreIds \subseteq DOMAIN index
    /\ pc = "merged" =>
          DOMAIN index =
              ((Range(current_batch) \cup Range(word_queue)) \ {c1, c2})
              \cup {cluster_counter}

C16_Witness ==
    /\ pc = "loop"
    /\ cluster_counter = 1
    /\ max_vocab_size # None
    /\ Len(words) < Cardinality(DistinctWords)
    /\ DOMAIN index = {0}
\* C17: the bit map and the parent map have the same key set, every bit is
\* '0' or '1', and two distinct ids with the same parent have complementary
\* bits, for either outcome of the random bit draw.
C17_Bits ==
    /\ DOMAIN cluster_bits = DOMAIN cluster_parents
    /\ \A k \in DOMAIN cluster_bits : cluster_bits[k] \in {"0", "1"}
    /\ \A k, l \in DOMAIN cluster_parents :
          (k # l /\ cluster_parents[k] = cluster_parents[l]) =>
              cluster_bits[k] # cluster_bits[l]

C17_Witness ==
    /\ pc = "merged"
    /\ cluster_counter = 1
    /\ Cardinality(DOMAIN cluster_bits) = 4
    /\ cluster_bits[c1] = "1"
    /\ cluster_bits[c2] = "0"

\* the original words beneath the cluster id k
Leaves(k) ==
    {w \in Range(words) :
        \E j \in 0..(cluster_counter + 1) :
            HasAncestor(w, j) /\ Ancestor(w, j) = k}

RECURSIVE SumOccurrences(_)
SumOccurrences(S) ==
    IF S = {} THEN 0
    ELSE LET w == CHOOSE x \in S : TRUE
         IN  Occurrences(w) + SumOccurrences(S \ {w})

C18_State ==
    \A k \in MergedIds :
        Has(word_counts, k) => word_counts[k] = SumOccurrences(Leaves(k))

C18_Step ==
    (pc = "found" /\ pc' = "merged") =>
        /\ Has(word_counts, c1) /\ Has(word_counts, c2)
        /\ Has(word_counts', cluster_counter)
        /\ word_counts'[cluster_counter] = word_counts[c1] + word_counts[c2]

\* C18: the frequency recorded for the new id of a merge of c1 and c2 is
\* frequency(c1) + frequency(c2) as they were before the merge; hence the
\* frequency of a merged cluster is the sum of the corpus frequencies of the
\* original words beneath it.
C18_MergedFrequency == []C18_State /\ [][C18_Step]_vars

C18_Witness ==
    /\ pc = "merged"
    /\ cluster_counter = 1
    /\ (c1 = 0 \/ c2 = 0)
    /\ Has(word_counts, 1)
    /\ word_counts[1] >= 4
    /\ Cardinality(Leaves(1)) = 3

RECURSIVE SumCounts(_, _)
SumCounts(m, S) ==
    IF S = {} THEN 0
    ELSE LET d == CHOOSE x \in S : TRUE
         IN  m[d] + SumCounts(m, S \ {d})

C19_State ==
    \A k \in DOMAIN index :
        /\ \A d \in DOMAIN index[k] : index[k][d] > 0
        /\ Has(word_counts, k)
        /\ SumCounts(index[k], DOMAIN index[k]) = word_counts[k]

C19_Step ==
    (pc = "found" /\ pc' = "merged") =>
        /\ Has(index', cluster_counter)
        /\ DOMAIN index'[cluster_counter]
              = DOMAIN index[c1] \cup DOMAIN index[c2]
        /\ \A d \in DOMAIN index'[cluster_counter] :
              index'[cluster_counter][d]
                 = GetOr(index[c1], d, 0) + GetOr(index[c2], d, 0)

\* C19: the document map of the new cluster of a merge of c1 and c2 gives
\* each document the sum of the counts of c1 and c2 in it (absent is 0), has
\* exactly the documents of either child and no zero entry; the counts of
\* each live cluster's map sum to the frequency of the cluster.
C19_MergedMap == []C19_State /\ [][C19_Step]_vars

C19_Witness ==
    /\ pc = "merged"
    /\ c1 < 0
    /\ c2 < 0
    /\ \E d \in 1..Len(docs) :
          /\ docs[d] \in {<<c1, c2>>, <<c2, c1>>}
          /\ index[cluster_counter][d - 1] = 2
    /\ Cardinality(DOMAIN index[cluster_counter]) >= 2

IsPrefix(a, b) == Len(a) <= Len(b) /\ SubSeq(b, 1, Len(a)) = a

\* C20: for a retained vocabulary of at least 2 words, at DONE the codes of
\* the words are non-empty, pairwise distinct and none is a prefix of
\* another: every word is a leaf of one binary merge tree.
C20_PrefixFree ==
    (pc \in {"done", "saved"} /\ Len(words) >= 2) =>
        /\ Cardinality(Roots) = 1
        /\ \A w \in Range(words) :
              get_bitstring(cluster_parents, cluster_bits, w) # <<>>
        /\ \A w, v \in Range(words) :
              w # v =>
                 ~IsPrefix(get_bitstring(cluster_parents, cluster_bits, w),
                           get_bitstring(cluster_parents, cluster_bits, v))
        /\ pc = "saved" =>
              \A i, j \in 1..Len(output) :
                  i # j => ~IsPrefix(output[i].code, output[j].code)

C20_Witness ==
    /\ pc = "saved"
    /\ Len(output) = 4
    /\ \E i \in 1..4 : Len(output[i].code) = 3
====
